---------------------------- MODULE Spec2Model ----------------------------
(***************************************************************************)
(* Model of CodeOptimizer.py: a Streamlit script that is executed top to   *)
(* bottom once per user event (one "pass").  Session state survives        *)
(* between passes; local variables do not.                                 *)
(*                                                                         *)
(* Python strings are modelled as sequences of one-character strings so    *)
(* that lower(), strip(), splitext() and re.sub() are computed, not        *)
(* assumed.  None is modelled as the empty sequence where the code only    *)
(* tests truthiness (detected_language), and an optional value (uploaded   *)
(* file, rendered view) as a sequence of length 0 or 1.                    *)
(***************************************************************************)
EXTENDS Integers, Sequences, FiniteSets, TLC

\* Longest history the model lets optimize build.
MaxHist == 2

None == <<>>

(***************************************************************************)
(* String primitives of the Python runtime used by the script.             *)
(***************************************************************************)
UpperLetters == <<"A","B","C","D","E","F","G","H","I","J","K","L","M",
                  "N","O","P","Q","R","S","T","U","V","W","X","Y","Z">>

LowerLetters == <<"a","b","c","d","e","f","g","h","i","j","k","l","m",
                  "n","o","p","q","r","s","t","u","v","w","x","y","z">>

Digits == {"0","1","2","3","4","5","6","7","8","9"}

Whitespace == {" ", "\n", "\t"}

\* str.lower() on one ASCII character.
LowerChar(c) ==
  IF \E i \in 1..26 : UpperLetters[i] = c
    THEN LowerLetters[CHOOSE i \in 1..26 : UpperLetters[i] = c]
    ELSE c

\* str.upper() on one ASCII character.
UpperChar(c) ==
  IF \E i \in 1..26 : LowerLetters[i] = c
    THEN UpperLetters[CHOOSE i \in 1..26 : LowerLetters[i] = c]
    ELSE c

\* str.lower()
Lower(s) == [i \in 1..Len(s) |-> LowerChar(s[i])]

\* str.strip(): drop leading and trailing whitespace.
Strip(s) ==
  LET keep == {i \in 1..Len(s) : s[i] \notin Whitespace}
  IN  IF keep = {} THEN <<>>
      ELSE LET lo == CHOOSE i \in keep : \A j \in keep : i <= j
               hi == CHOOSE i \in keep : \A j \in keep : j <= i
           IN  SubSeq(s, lo, hi)

\* re.sub(r'[^a-z0-9]', '', s)
RECURSIVE StripNonAlnum(_)
StripNonAlnum(s) ==
  IF s = <<>> THEN <<>>
  ELSE LET c == Head(s)
           isAlnum == c \in Digits \/ (\E i \in 1..26 : LowerLetters[i] = c)
       IN  (IF isAlnum THEN <<c>> ELSE <<>>) \o StripNonAlnum(Tail(s))

\* str.rfind(c): 1-based index of the last occurrence, 0 when absent
\* (Python's -1 shifted by one with the indices).
RFind(s, c) ==
  LET hits == {i \in 1..Len(s) : s[i] = c}
  IN  IF hits = {} THEN 0 ELSE CHOOSE i \in hits : \A j \in hits : j <= i

\* os.path.splitext(p)[1]: the extension starts at the last dot of the last
\* path component, unless that component has only dots in front of it.
SplitExt(p) ==
  LET sepIndex == RFind(p, "/")
      dotIndex == RFind(p, ".")
  IN  IF dotIndex > sepIndex
         /\ \E k \in (sepIndex + 1)..(dotIndex - 1) : p[k] # "."
        THEN SubSeq(p, dotIndex, Len(p))
        ELSE <<>>

\* dict.get(key): the value, or None when the key is absent.  A dict is a
\* sequence of <<key, value>> pairs in insertion order.
DictGet(d, key) ==
  IF \E i \in 1..Len(d) : d[i][1] = key
    THEN d[CHOOSE i \in 1..Len(d) : d[i][1] = key][2]
    ELSE None

DictHas(d, key) == \E i \in 1..Len(d) : d[i][1] = key

(***************************************************************************)
(* Language detection tables.                                              *)
(***************************************************************************)
EXTENSION_TO_LANG ==
  << <<<<".", "p", "y">>, <<"p", "y", "t", "h", "o", "n">>>>,
     <<<<".", "j", "s">>, <<"j", "a", "v", "a", "s", "c", "r", "i", "p", "t">>>>,
     <<<<".", "j", "a", "v", "a">>, <<"j", "a", "v", "a">>>>,
     <<<<".", "c">>, <<"c">>>>,
     <<<<".", "c", "p", "p">>, <<"c", "p", "p">>>>,
     <<<<".", "c", "c">>, <<"c", "p", "p">>>>,
     <<<<".", "c", "x", "x">>, <<"c", "p", "p">>>>,
     <<<<".", "c", "s">>, <<"c", "s", "h", "a", "r", "p">>>>,
     <<<<".", "g", "o">>, <<"g", "o">>>>,
     <<<<".", "r", "b">>, <<"r", "u", "b", "y">>>>,
     <<<<".", "p", "h", "p">>, <<"p", "h", "p">>>>,
     <<<<".", "r", "s">>, <<"r", "u", "s", "t">>>>,
     <<<<".", "t", "s">>, <<"t", "y", "p", "e", "s", "c", "r", "i", "p", "t">>>>,
     <<<<".", "k", "t">>, <<"k", "o", "t", "l", "i", "n">>>>,
     <<<<".", "s", "w", "i", "f", "t">>, <<"s", "w", "i", "f", "t">>>>,
     <<<<".", "s", "c", "a", "l", "a">>, <<"s", "c", "a", "l", "a">>>>,
     <<<<".", "p", "l">>, <<"p", "e", "r", "l">>>>,
     <<<<".", "r">>, <<"r">>>>,
     <<<<".", "s", "h">>, <<"b", "a", "s", "h">>>>,
     <<<<".", "h", "t", "m", "l">>, <<"h", "t", "m", "l">>>>,
     <<<<".", "c", "s", "s">>, <<"c", "s", "s">>>>,
     <<<<".", "s", "q", "l">>, <<"s", "q", "l">>>>,
     <<<<".", "j", "s", "o", "n">>, <<"j", "s", "o", "n">>>>,
     <<<<".", "x", "m", "l">>, <<"x", "m", "l">>>>,
     <<<<".", "y", "a", "m", "l">>, <<"y", "a", "m", "l">>>>,
     <<<<".", "y", "m", "l">>, <<"y", "a", "m", "l">>>>,
     <<<<".", "m", "d">>, <<"m", "a", "r", "k", "d", "o", "w", "n">>>> >>

pygments_to_lang ==
  << <<<<"p", "y", "t", "h", "o", "n">>, <<"p", "y", "t", "h", "o", "n">>>>,
     <<<<"p", "y">>, <<"p", "y", "t", "h", "o", "n">>>>,
     <<<<"p", "y", "t", "h", "o", "n", "3">>, <<"p", "y", "t", "h", "o", "n">>>>,
     <<<<"j", "a", "v", "a", "s", "c", "r", "i", "p", "t">>, <<"j", "a", "v", "a", "s", "c", "r", "i", "p", "t">>>>,
     <<<<"j", "s">>, <<"j", "a", "v", "a", "s", "c", "r", "i", "p", "t">>>>,
     <<<<"j", "a", "v", "a">>, <<"j", "a", "v", "a">>>>,
     <<<<"c">>, <<"c">>>>,
     <<<<"c", "+", "+">>, <<"c", "p", "p">>>>,
     <<<<"c", "p", "p">>, <<"c", "p", "p">>>>,
     <<<<"c", "#">>, <<"c", "s", "h", "a", "r", "p">>>>,
     <<<<"c", "s", "h", "a", "r", "p">>, <<"c", "s", "h", "a", "r", "p">>>>,
     <<<<"c", "-", "s", "h", "a", "r", "p">>, <<"c", "s", "h", "a", "r", "p">>>>,
     <<<<"c", "#", " ", "(", "c", "-", "s", "h", "a", "r", "p", ")">>, <<"c", "s", "h", "a", "r", "p">>>>,
     <<<<"g", "o">>, <<"g", "o">>>>,
     <<<<"g", "o", "l", "a", "n", "g">>, <<"g", "o">>>>,
     <<<<"r", "u", "b", "y">>, <<"r", "u", "b", "y">>>>,
     <<<<"r", "b">>, <<"r", "u", "b", "y">>>>,
     <<<<"p", "h", "p">>, <<"p", "h", "p">>>>,
     <<<<"r", "u", "s", "t">>, <<"r", "u", "s", "t">>>>,
     <<<<"t", "y", "p", "e", "s", "c", "r", "i", "p", "t">>, <<"t", "y", "p", "e", "s", "c", "r", "i", "p", "t">>>>,
     <<<<"t", "s">>, <<"t", "y", "p", "e", "s", "c", "r", "i", "p", "t">>>>,
     <<<<"k", "o", "t", "l", "i", "n">>, <<"k", "o", "t", "l", "i", "n">>>>,
     <<<<"s", "w", "i", "f", "t">>, <<"s", "w", "i", "f", "t">>>>,
     <<<<"s", "c", "a", "l", "a">>, <<"s", "c", "a", "l", "a">>>>,
     <<<<"p", "e", "r", "l">>, <<"p", "e", "r", "l">>>>,
     <<<<"r">>, <<"r">>>>,
     <<<<"b", "a", "s", "h">>, <<"b", "a", "s", "h">>>>,
     <<<<"s", "h">>, <<"b", "a", "s", "h">>>>,
     <<<<"s", "h", "e", "l", "l">>, <<"b", "a", "s", "h">>>>,
     <<<<"h", "t", "m", "l">>, <<"h", "t", "m", "l">>>>,
     <<<<"x", "m", "l", "+", "h", "t", "m", "l">>, <<"h", "t", "m", "l">>>>,
     <<<<"c", "s", "s">>, <<"c", "s", "s">>>>,
     <<<<"s", "q", "l">>, <<"s", "q", "l">>>>,
     <<<<"j", "s", "o", "n">>, <<"j", "s", "o", "n">>>>,
     <<<<"x", "m", "l">>, <<"x", "m", "l">>>>,
     <<<<"y", "a", "m", "l">>, <<"y", "a", "m", "l">>>>,
     <<<<"y", "m", "l">>, <<"y", "a", "m", "l">>>>,
     <<<<"m", "a", "r", "k", "d", "o", "w", "n">>, <<"m", "a", "r", "k", "d", "o", "w", "n">>>>,
     <<<<"m", "d">>, <<"m", "a", "r", "k", "d", "o", "w", "n">>>> >>

(***************************************************************************)
(* Language detection (script lines 119-220).                              *)
(***************************************************************************)
\* Outcome of guess_lexer raising ClassNotFound.
NoMatch == <<"!">>

\* Marks a pass in which guess_lexer was not called.
NotCalled == <<"?">>

\* ExtensionLanguage with the extension looked up as spelled.
ExtensionLanguage_NoLower(file) ==
  IF file # <<>> /\ file[1].name # <<>>
    THEN LET ext == SplitExt(file[1].name)
         IN  IF DictHas(EXTENSION_TO_LANG, ext)
               THEN DictGet(EXTENSION_TO_LANG, ext)
               ELSE None
    ELSE None

\* Extension step: the tag for the uploaded file's extension, else None.
ExtensionLanguage(file) ==
  IF file # <<>> /\ file[1].name # <<>>
    THEN LET ext == Lower(SplitExt(file[1].name))
         IN  IF DictHas(EXTENSION_TO_LANG, ext)
               THEN DictGet(EXTENSION_TO_LANG, ext)
               ELSE None
    ELSE None

\* Whether the Pygments step runs: nothing detected yet and non-empty code.
LexerConsulted(file, code) == ExtensionLanguage(file) = None /\ code # <<>>

\* First alias key, in dict order, whose alphanumeric skeleton equals that
\* of the name; None when there is none.
SimpleNameMatch(pygments_name) ==
  LET simple_name == StripNonAlnum(Lower(pygments_name))
      hits == {i \in 1..Len(pygments_to_lang) :
                 StripNonAlnum(Lower(pygments_to_lang[i][1])) = simple_name}
  IN  IF hits = {} THEN None
      ELSE pygments_to_lang[CHOOSE i \in hits : \A j \in hits : i <= j][2]

\* NormalizeLexerName with the lexer's name looked up as spelled.
NormalizeLexerName_NoLower(lexer_name) ==
  LET direct == DictGet(pygments_to_lang, lexer_name)
      simple == IF direct = None THEN SimpleNameMatch(lexer_name)
                ELSE direct
  IN  IF simple = None THEN lexer_name ELSE simple

\* Normalisation of the lexer's name: direct match, lower-cased match,
\* skeleton match, then the name itself.
NormalizeLexerName(lexer_name) ==
  LET pygments_name == Lower(lexer_name)
      direct == DictGet(pygments_to_lang, pygments_name)
      lowered == IF direct = None
                   THEN DictGet(pygments_to_lang, Lower(pygments_name))
                   ELSE direct
      simple == IF lowered = None THEN SimpleNameMatch(pygments_name)
                ELSE lowered
  IN  IF simple = None THEN pygments_name ELSE simple

\* detected_language as it stands after line 220.  lex is what guess_lexer
\* does on this code: a lexer name, or NoMatch.
DetectLanguage(file, code, lex) ==
  IF ExtensionLanguage(file) # None THEN ExtensionLanguage(file)
  ELSE IF code # <<>>
    THEN IF lex = NoMatch THEN None ELSE NormalizeLexerName(lex)
    ELSE None

(***************************************************************************)
(* Session state and the values the last pass left on the page.            *)
(***************************************************************************)
VARIABLES
  history,                \* st.session_state.history
  clear_triggered,        \* st.session_state.clear_triggered
  text_input_value,       \* st.session_state.text_input_value
  show_explanation_only,  \* st.session_state['show_explanation_only']
  uploaded_file,          \* main_file_uploader: <<>> or <<[name, content]>>
  main_code_input,        \* text shown in (and returned by) the text area
  widget_default,         \* value= argument the text area was last built with
  detected_language,      \* detected_language after the detection block
  lexer_out,              \* what guess_lexer did in the last pass
  view,                   \* comparison rendered by the last pass: <<>> or <<entry>>
  explanation,            \* explanation rendered by the last pass
  message,                \* set of st.warning / st.success shown by the last pass
  op                      \* the event the last pass handled, and its outcome

vars == <<history, clear_triggered, text_input_value, show_explanation_only,
          uploaded_file, main_code_input, widget_default, detected_language,
          lexer_out, view, explanation, message, op>>

\* Texts a user types into the text area.
TypedTexts == { <<>>, <<" ">>, <<"x">> }

\* Files a user uploads.
Files == { [name |-> <<"a", ".", "P", "Y">>, content |-> <<"f">>],
           [name |-> <<"a", ".", "P", "Y">>, content |-> <<>>],
           [name |-> <<"n">>, content |-> <<"f">>] }

\* What guess_lexer does in a pass of the session.
LexerOutcomes == { NoMatch, <<"C", "+", "+">> }

\* Texts complete() returns.
Completions == { <<"r">>, <<" ">> }

Init ==
  /\ history = <<>>
  /\ clear_triggered = FALSE
  /\ text_input_value = <<>>
  /\ show_explanation_only = FALSE
  /\ uploaded_file = <<>>
  /\ main_code_input = <<>>
  /\ widget_default = <<>>
  /\ detected_language = None
  /\ lexer_out = NotCalled
  /\ view = <<>>
  /\ explanation = "none"
  /\ message = {}
  /\ op = "init"

(***************************************************************************)
(* Top of the script: uploader, text area, language detection.             *)
(***************************************************************************)
uploaded_code(file) == IF file # <<>> THEN file[1].content ELSE <<>>

get_initial_code(file, tiv) ==
  IF file # <<>> /\ uploaded_code(file) # <<>> THEN uploaded_code(file) ELSE tiv

\* TextAreaValue that ignores clear_triggered.
TextAreaValue_NoClear(ct, file, tiv) == get_initial_code(file, tiv)

\* value= argument of the text area in this pass.
TextAreaValue(ct, file, tiv) ==
  IF ct THEN <<>> ELSE get_initial_code(file, tiv)

\* What st.text_area returns.  The widget is identified by its arguments: a
\* value= that differs from the one of the previous pass (wd) builds a fresh
\* widget showing that value, an unchanged one keeps what the browser holds
\* (wval).
TextArea(wd, ct, file, tiv, wval) ==
  IF TextAreaValue(ct, file, tiv) # wd
    THEN TextAreaValue(ct, file, tiv)
    ELSE wval

\* Lines 85-220 of a pass: render the inputs and detect the language.
\* file, tiv and wval are the uploader content, text_input_value and browser
\* text as the pass finds them; lex is guess_lexer's behaviour.
RenderInputs(wd, ct, file, tiv, wval, lex) ==
  LET messy_code == TextArea(wd, ct, file, tiv, wval)
  IN  /\ uploaded_file' = file
      /\ text_input_value' = tiv
      /\ widget_default' = TextAreaValue(ct, file, tiv)
      /\ main_code_input' = messy_code
      /\ detected_language' = DetectLanguage(file, messy_code, lex)
      /\ lexer_out' = IF LexerConsulted(file, messy_code) THEN lex
                      ELSE NotCalled

\* A pass that starts from the stored session with no new input event.
RenderSame(lex) ==
  RenderInputs(widget_default, clear_triggered, uploaded_file,
               text_input_value, main_code_input, lex)

\* messy_code of such a pass.
MessyCode ==
  TextArea(widget_default, clear_triggered, uploaded_file, text_input_value,
           main_code_input)

(***************************************************************************)
(* Bottom of the script: the side-by-side comparison (lines 313-359).      *)
(***************************************************************************)
Last(h) == h[Len(h)]

ComparisonShown(h, flag) ==
  /\ h # <<>>
  /\ Strip(Last(h).cleaned) # <<>>
  /\ Strip(Last(h).messy) # <<>>
  /\ ~flag

\* Comparison that shows the oldest entry instead of the newest.
Comparison_First(h, flag) ==
  IF ComparisonShown(h, flag)
    THEN << [messy |-> h[1].messy, cleaned |-> h[1].cleaned,
             language |-> h[1].language] >>
    ELSE <<>>

Comparison(h, flag) ==
  IF ComparisonShown(h, flag)
    THEN << [messy |-> Last(h).messy, cleaned |-> Last(h).cleaned,
             language |-> Last(h).language] >>
    ELSE <<>>

\* A pass in which no action button is pressed runs straight through to
\* the comparison.
PlainTail ==
  /\ view' = Comparison(history, show_explanation_only)
  /\ explanation' = "none"
  /\ message' = {}
  /\ UNCHANGED <<history, clear_triggered, show_explanation_only>>

(***************************************************************************)
(* Input events: each triggers one pass with no action button pressed.     *)
(***************************************************************************)
\* The user edits the text area; on_change copies the new text into
\* text_input_value before the script runs.
TypeText(t, lex) ==
  /\ t # main_code_input
  /\ RenderInputs(widget_default, clear_triggered, uploaded_file, t, t, lex)
  /\ PlainTail
  /\ op' = "type"

UploadFile(f, lex) ==
  /\ uploaded_file # <<f>>
  /\ RenderInputs(widget_default, clear_triggered, <<f>>, text_input_value,
                  main_code_input, lex)
  /\ PlainTail
  /\ op' = "upload"

RemoveFile(lex) ==
  /\ uploaded_file # <<>>
  /\ RenderInputs(widget_default, clear_triggered, <<>>, text_input_value,
                  main_code_input, lex)
  /\ PlainTail
  /\ op' = "remove"

(***************************************************************************)
(* Revert button (lines 255-266).                                          *)
(***************************************************************************)
\* RevertWarns with the bound off by one.
RevertWarns_Strict(h) == Len(h) < 1

\* Line 256: the warning is shown when there is no earlier version.
RevertWarns(h) == Len(h) <= 1

\* RevertApplies with the bound off by one.
RevertApplies_Any(h) == Len(h) > 0

\* Line 260: the revert is applied when an earlier version exists.
RevertApplies(h) == Len(h) > 1

\* PopHistory that removes the oldest entry.
PopHistory_First(h) == Tail(h)

\* Line 261: history.pop()
PopHistory(h) == SubSeq(h, 1, Len(h) - 1)

\* The locals set from prev on lines 262-265 are not read again in a pass
\* whose only pressed button is Revert: the comparison reloads them from
\* history[-1].
Revert(lex) ==
  /\ RenderSame(lex)
  /\ history' = IF RevertApplies(history) THEN PopHistory(history)
                ELSE history
  /\ message' = (IF RevertWarns(history) THEN {"warning"} ELSE {})
                   \cup (IF RevertApplies(history) THEN {"success"} ELSE {})
  /\ view' = Comparison(history', show_explanation_only)
  /\ explanation' = "none"
  /\ op' = "revert"
  /\ UNCHANGED <<clear_triggered, show_explanation_only>>

(***************************************************************************)
(* Clear All button (lines 268-281): the pass that handles the click and   *)
(* the rerun it asks for.                                                  *)
(***************************************************************************)
ClearAll(lex) ==
  LET value1 == TextAreaValue(clear_triggered, uploaded_file,
                              text_input_value)
  IN  /\ RenderInputs(value1, TRUE, uploaded_file, <<>>, MessyCode, lex)
      /\ history' = <<>>
      /\ clear_triggered' = FALSE
      /\ view' = Comparison(history', show_explanation_only)
      /\ explanation' = "none"
      /\ message' = {}
      /\ op' = "clear"
      /\ UNCHANGED show_explanation_only

(***************************************************************************)
(* Optimize Code button (lines 287-298).                                   *)
(***************************************************************************)
\* SaveToHistory that puts the new entry first.
SaveToHistory_Front(h, messy_code, optimized, language) ==
  << [messy |-> messy_code, cleaned |-> optimized, language |-> language] >>
    \o h

\* Lines 293-297: history.append({...})
SaveToHistory(h, messy_code, optimized, language) ==
  Append(h, [messy |-> messy_code, cleaned |-> optimized,
             language |-> language])

\* complete() returns result.
OptimizeOk(lex, result) ==
  /\ Len(history) < MaxHist
  /\ Strip(MessyCode) # <<>>
  /\ RenderSame(lex)
  /\ history' = SaveToHistory(history, MessyCode, result, detected_language')
  /\ show_explanation_only' = FALSE
  /\ view' = Comparison(history', show_explanation_only')
  /\ explanation' = "none"
  /\ message' = {}
  /\ op' = "optimize_ok"
  /\ UNCHANGED clear_triggered

\* complete() raises ServiceError: the pass ends at line 290.
OptimizeError(lex) ==
  /\ Strip(MessyCode) # <<>>
  /\ RenderSame(lex)
  /\ view' = <<>>
  /\ explanation' = "none"
  /\ message' = {}
  /\ op' = "optimize_error"
  /\ UNCHANGED <<history, clear_triggered, show_explanation_only>>

\* Blank code: the handler is skipped.
OptimizeBlank(lex) ==
  /\ Strip(MessyCode) = <<>>
  /\ RenderSame(lex)
  /\ PlainTail
  /\ op' = "optimize_blank"

(***************************************************************************)
(* Explain Code button (lines 300-311).                                    *)
(***************************************************************************)
\* complete() returns: the explanation is rendered, the flag is reset and
\* st.stop() ends the pass before the comparison.
ExplainOk(lex) ==
  /\ Strip(MessyCode) # <<>>
  /\ RenderSame(lex)
  /\ show_explanation_only' = FALSE
  /\ view' = <<>>
  /\ explanation' = "input"
  /\ message' = {}
  /\ op' = "explain_ok"
  /\ UNCHANGED <<history, clear_triggered>>

\* complete() raises ServiceError: the pass ends at line 304, after the
\* flag was set and before it is reset.
ExplainError(lex) ==
  /\ Strip(MessyCode) # <<>>
  /\ RenderSame(lex)
  /\ show_explanation_only' = TRUE
  /\ view' = <<>>
  /\ explanation' = "none"
  /\ message' = {}
  /\ op' = "explain_error"
  /\ UNCHANGED <<history, clear_triggered>>

ExplainBlank(lex) ==
  /\ Strip(MessyCode) = <<>>
  /\ RenderSame(lex)
  /\ PlainTail
  /\ op' = "explain_blank"

(***************************************************************************)
(* Explain Optimized Code button (lines 336, 353-359): on the page only    *)
(* when the last pass rendered the comparison.                             *)
(***************************************************************************)
ExplainOptimizedOk(lex) ==
  /\ view # <<>>
  /\ RenderSame(lex)
  /\ view' = Comparison(history, show_explanation_only)
  /\ explanation' = "optimized"
  /\ message' = {}
  /\ op' = "explain_optimized_ok"
  /\ UNCHANGED <<history, clear_triggered, show_explanation_only>>

ExplainOptimizedError(lex) ==
  /\ view # <<>>
  /\ RenderSame(lex)
  /\ view' = Comparison(history, show_explanation_only)
  /\ explanation' = "none"
  /\ message' = {}
  /\ op' = "explain_optimized_error"
  /\ UNCHANGED <<history, clear_triggered, show_explanation_only>>

\* One pass of the session, complete() answering from completions.
Session(completions) ==
  \/ \E t \in TypedTexts, lex \in LexerOutcomes : TypeText(t, lex)
  \/ \E f \in Files, lex \in LexerOutcomes : UploadFile(f, lex)
  \/ \E lex \in LexerOutcomes : RemoveFile(lex)
  \/ \E lex \in LexerOutcomes : Revert(lex)
  \/ \E lex \in LexerOutcomes : ClearAll(lex)
  \/ \E lex \in LexerOutcomes, result \in completions : OptimizeOk(lex, result)
  \/ \E lex \in LexerOutcomes : OptimizeError(lex)
  \/ \E lex \in LexerOutcomes : OptimizeBlank(lex)
  \/ \E lex \in LexerOutcomes : ExplainOk(lex)
  \/ \E lex \in LexerOutcomes : ExplainError(lex)
  \/ \E lex \in LexerOutcomes : ExplainBlank(lex)
  \/ \E lex \in LexerOutcomes : ExplainOptimizedOk(lex)
  \/ \E lex \in LexerOutcomes : ExplainOptimizedError(lex)

Next == Session(Completions)

Spec == Init /\ [][Next]_vars

\* The session when complete() never returns blank text.
NextTextual == Session({r \in Completions : Strip(r) # <<>>})

SpecTextual == Init /\ [][NextTextual]_vars

(***************************************************************************)
(* Language detection on its own: one run of lines 151-220 on a file name, *)
(* a code text and a lexer behaviour drawn from larger sets.               *)
(***************************************************************************)
\* Every upper/lower-case spelling of s.
RECURSIVE CaseVariants(_)
CaseVariants(s) ==
  IF s = <<>> THEN { <<>> }
  ELSE { <<c>> \o rest : c \in {LowerChar(Head(s)), UpperChar(Head(s))},
                          rest \in CaseVariants(Tail(s)) }

\* Files named a<ext> for every spelling of every table extension.
KnownFiles ==
  { [name |-> <<"a">> \o e, content |-> <<"f">>] :
      e \in UNION { CaseVariants(EXTENSION_TO_LANG[i][1]) :
                      i \in 1..Len(EXTENSION_TO_LANG) } }

\* No file, and files whose extension is not in the table.
OtherFiles ==
  { <<>> } \cup
  { << [name |-> n, content |-> <<"f">>] >> :
      n \in { <<"a">>, <<".", "p", "y">>, <<"a", ".", "t", "x", "t">>,
              <<"b", ".", "p", "y", "/", "a">>, <<"a", ".", "p", "y", ".">> } }

\* Every spelling of every alias key.
AliasSpellings ==
  UNION { CaseVariants(pygments_to_lang[i][1]) :
            i \in 1..Len(pygments_to_lang) }

\* Lexer names that are not alias keys.
OtherLexerNames ==
  { <<"S", "c", "h", "e", "m", "e">>, <<"C", "-", "+", "+">>,
    <<"G", "o", "!">>, <<"T", "e", "x", "t", " ", "o", "n", "l", "y">>,
    <<"t", "e", "x">> }

ResolveTexts == { <<>>, <<" ">>, <<"x">> }

Resolve(file, code, lex) ==
  /\ uploaded_file' = file
  /\ main_code_input' = code
  /\ detected_language' = DetectLanguage(file, code, lex)
  /\ lexer_out' = IF LexerConsulted(file, code) THEN lex ELSE NotCalled
  /\ op' = "resolve"
  /\ UNCHANGED <<history, clear_triggered, text_input_value,
                 show_explanation_only, widget_default, view, explanation,
                 message>>

\* Detection is run once, on the first pass.
ResolveKnown ==
  /\ op = "init"
  /\ \E f \in KnownFiles, code \in ResolveTexts,
        lex \in {NoMatch} \cup OtherLexerNames
                  \cup CaseVariants(<<"j", "s">>) :
       Resolve(<<f>>, code, lex)

ResolveOther ==
  /\ op = "init"
  /\ \E file \in OtherFiles, code \in ResolveTexts,
        lex \in {NoMatch} \cup OtherLexerNames \cup AliasSpellings :
       Resolve(file, code, lex)

NextResolve == ResolveKnown \/ ResolveOther

SpecResolve == Init /\ [][NextResolve]_vars

TypeOK ==
  /\ Len(history) <= MaxHist
  /\ clear_triggered \in BOOLEAN
  /\ show_explanation_only \in BOOLEAN
  /\ Len(view) <= 1

(***************************************************************************)
(* Properties.                                                             *)
(***************************************************************************)
\* C1: every successful optimize appends exactly one entry {the code in the
\* text area, the text complete() returned, the detected language} at the
\* end of history and leaves the earlier entries as they were.
C1_OptimizeAppends ==
  [][op' = "optimize_ok" =>
       /\ Len(history') = Len(history) + 1
       /\ \A i \in 1..Len(history) : history'[i] = history[i]
       /\ Last(history').messy = main_code_input'
       /\ Last(history').cleaned \in Completions
       /\ Last(history').language = detected_language']_vars

\* Two optimizes in a row have built a history of length 2.
C1_Witness ==
  /\ op = "optimize_ok"
  /\ Len(history) = 2
  /\ history[1] # history[2]

\* C2 (as claimed): a revert on a history of length N > 1 removes only the
\* last entry and the comparison then shows the new last entry.  Checked
\* with complete() returning non-blank text only, so that every entry of
\* history is one the comparison can show.
C2_RevertShowsPrevious ==
  [][(op' = "revert" /\ Len(history) > 1) =>
       /\ history' = SubSeq(history, 1, Len(history) - 1)
       /\ view' = << Last(history') >>]_vars

\* C3: a revert on a history of length 0 or 1 leaves history as it is and
\* reports the warning, not the success message.
C3_RevertNoop ==
  [][(op' = "revert" /\ Len(history) <= 1) =>
       /\ history' = history
       /\ message' = {"warning"}]_vars

\* A revert was pressed with a single entry in history.
C3_Witness ==
  /\ op = "revert"
  /\ Len(history) = 1
  /\ message = {"warning"}

\* C4: after Clear All the history is empty, text_input_value is empty and
\* the text area of the pass that follows the clear is blank.
C4_ClearAll ==
  op = "clear" =>
    /\ history = <<>>
    /\ text_input_value = <<>>
    /\ main_code_input = <<>>

\* Clear All was pressed while a non-empty file was uploaded.
C4_Witness ==
  /\ op = "clear"
  /\ uploaded_code(uploaded_file) # <<>>
  /\ show_explanation_only

\* C5 (as claimed): once history is non-empty it never becomes empty again.
C5_NeverEmptyAgain ==
  [][history # <<>> => history' # <<>>]_vars

\* C5 (amended): a non-empty history becomes empty only through Clear All.
C5_EmptiedOnlyByClear ==
  [][(history # <<>> /\ history' = <<>>) => op' = "clear"]_vars

\* A successful revert has left the history with its first entry.
C5_Witness ==
  /\ op = "revert"
  /\ "success" \in message
  /\ Len(history) = 1

\* Passes that end before the comparison: the explanation's st.stop(), or
\* a ServiceError raised by complete() in the optimize or explain handler.
EndsEarly == op \in {"explain_ok", "explain_error", "optimize_error"}

\* C6 (as claimed): whenever history is non-empty and show_explanation_only
\* is false at the end of a pass, the comparison shows history[-1].
C6_ViewReflectsLast ==
  (history # <<>> /\ ~show_explanation_only) => view = << Last(history) >>

\* C6 (amended): at the end of a pass that runs through to the comparison,
\* with history non-empty, history[-1]'s cleaned text not blank and
\* show_explanation_only false, the comparison shows history[-1].
C6_ViewReflectsLastWhenShown ==
  ( /\ history # <<>>
    /\ ~show_explanation_only
    /\ Strip(Last(history).cleaned) # <<>>
    /\ ~EndsEarly ) => view = << Last(history) >>

\* The comparison shows the second of two different entries.
C6_Witness ==
  /\ Len(history) = 2
  /\ history[1] # history[2]
  /\ view = << history[2] >>
  /\ ~show_explanation_only

\* C7: when the lower-cased extension of the uploaded file's name is a key
\* of EXTENSION_TO_LANG, the detected language is the mapped tag and
\* guess_lexer is not called, whatever the code text is.
C7_ExtensionWins ==
  \A i \in 1..Len(EXTENSION_TO_LANG) :
    ( /\ op = "resolve"
      /\ uploaded_file # <<>>
      /\ Lower(SplitExt(uploaded_file[1].name)) = EXTENSION_TO_LANG[i][1] )
    => /\ detected_language = EXTENSION_TO_LANG[i][2]
       /\ lexer_out = NotCalled

\* A file named a.PY with non-empty code resolved to python.
C7_Witness ==
  /\ op = "resolve"
  /\ uploaded_file # <<>>
  /\ uploaded_file[1].name = <<"a", ".", "P", "Y">>
  /\ main_code_input # <<>>
  /\ detected_language = <<"p", "y", "t", "h", "o", "n">>

\* C8: when guess_lexer is called and returns any upper/lower-case spelling
\* of an alias key, the detected language is the tag the table gives that
\* key.
C8_AliasNormalizes ==
  \A i \in 1..Len(pygments_to_lang) :
    ( /\ op = "resolve"
      /\ lexer_out \notin {NotCalled, NoMatch}
      /\ Lower(lexer_out) = pygments_to_lang[i][1] )
    => detected_language = pygments_to_lang[i][2]

\* guess_lexer returned "C++" and the detected language is cpp.
C8_Witness ==
  /\ op = "resolve"
  /\ lexer_out = <<"C", "+", "+">>
  /\ detected_language = <<"c", "p", "p">>

\* C9: history changes only by a successful optimize appending one entry,
\* a revert on more than one entry removing the last, or Clear All
\* emptying it; every other pass leaves it as it was.
C9_HistoryFrame ==
  [][history' # history =>
       \/ /\ op' = "optimize_ok"
          /\ Len(history') = Len(history) + 1
          /\ SubSeq(history', 1, Len(history)) = history
       \/ /\ op' = "revert"
          /\ Len(history) > 1
          /\ history' = SubSeq(history, 1, Len(history) - 1)
       \/ /\ op' = "clear"
          /\ history' = <<>>]_vars

\* An explain whose complete() failed ended with two entries in history.
C9_Witness ==
  /\ op = "explain_error"
  /\ Len(history) = 2

\* C10 (as claimed): after an explain has ended, whether complete()
\* returned or failed, show_explanation_only is false.
C10_FlagResetAfterExplain ==
  op \in {"explain_ok", "explain_error"} => ~show_explanation_only

\* C11 (as claimed): when guess_lexer is called and the name it returns
\* matches no alias key directly, case-insensitively or after stripping
\* the non-alphanumeric characters, the detected language is that name
\* exactly as guess_lexer returned it.
C11_FallbackIsRawName ==
  ( /\ op = "resolve"
    /\ lexer_out \notin {NotCalled, NoMatch}
    /\ \A i \in 1..Len(pygments_to_lang) :
         /\ pygments_to_lang[i][1] # lexer_out
         /\ pygments_to_lang[i][1] # Lower(lexer_out)
         /\ StripNonAlnum(Lower(pygments_to_lang[i][1]))
              # StripNonAlnum(Lower(lexer_out)) )
  => detected_language = lexer_out
=============================================================================
